---- MODULE Spec2Model ----
(***************************************************************************)
(* Data layer of the promotion dashboard: the CSV loader and its cache     *)
(* (scripts/data_loader.py), the global filter (apply_global_filters), the *)
(* KPI summary of dashboard.py and the Sankey, facet and sunburst sections *)
(* of pages/1_Advanced_Analytics.py.                                       *)
(*                                                                         *)
(* A DataFrame is [cols, rows]: cols is the set of column names, rows the  *)
(* sequence of rows in order, each [idx, val] with idx the index label     *)
(* (kept by boolean indexing) and val a function from cols to cell values. *)
(* Sums are integers; a float quotient is a reduced fraction or one of     *)
(* nan, inf, -inf, as numpy's float64 division yields.                     *)
(***************************************************************************)
EXTENDS Integers, Sequences, FiniteSets, TLC

VARIABLES
    df,          \* apply_global_filters: the dataframe argument
    state,       \* apply_global_filters: the state argument (a dict)
    result,      \* apply_global_filters: the returned dataframe
    result_is_df,  \* apply_global_filters: the returned object is the argument
    fpc,         \* "args" before the call, "returned" after it
    header,      \* load_csv: the column names pd.read_csv parsed, in file order
    columns,     \* load_csv: df.columns of the dataframe it returns
    disk,        \* the files under DATA_DIR, by file name
    csv_cache,   \* st.cache_data of load_csv, by alias
    page_cache,  \* st.cache_data of load_data, by page
    locks,       \* the cache's compute locks: holder of each key, 0 when free
    nreads,      \* pd.read_csv calls made so far, by file name
    sess,        \* the script runs: page, position, datasets built so far
    clean_all,      \* datasets.get("clean_all") of the session's script runs
    session_state,  \* st.session_state of the session
    current_page,   \* the page whose script ran last ("" before the first run)
    filtered_clean_all,  \* apply_global_filters(clean_all, dict(st.session_state))
    kpi,            \* dashboard.py: what the KPI summary and its chart produced
    sankey,         \* 1_Advanced_Analytics.py: what the Sankey section produced
    facet,          \* 1_Advanced_Analytics.py: what the facet section produced
    sunburst        \* 1_Advanced_Analytics.py: what the sunburst section produced

fvars == <<df, state, result, result_is_df, fpc, header, columns>>
lvars == <<disk, csv_cache, page_cache, locks, nreads, sess>>
dvars == <<clean_all, session_state, current_page, filtered_clean_all, kpi, sankey,
          facet, sunburst>>
vars == <<fvars, lvars, dvars>>

----------------------------------------------------------------------------
(* Bounds *)

MaxSankeyRows == 3

MaxRollupRows == 3
MaxTopN == 2

MaxCols == 3
MaxRows == 2
MaxActive == 2
MaxSessions == 2
MaxReads == 2
MaxSelected == 1

----------------------------------------------------------------------------
(* Cell values and the rows tables are drawn from *)

DimCols == {"campaign_id", "category", "product_code", "product_name",
            "promo_type", "city"}
NumCols == {"revenue_before_promo", "revenue_after_promo",
            "quantity_sold (before_promo)", "quantity_sold (after_promo)",
            "total_quantity_sold", "incremental_margin%"}
AllCols == DimCols \cup NumCols

MkRow(camp, cat, code, name, promo, city, rb, ra, qb, qa, tq, im) ==
    [c \in AllCols |->
        CASE c = "campaign_id" -> camp
          [] c = "category" -> cat
          [] c = "product_code" -> code
          [] c = "product_name" -> name
          [] c = "promo_type" -> promo
          [] c = "city" -> city
          [] c = "revenue_before_promo" -> rb
          [] c = "revenue_after_promo" -> ra
          [] c = "quantity_sold (before_promo)" -> qb
          [] c = "quantity_sold (after_promo)" -> qa
          [] c = "total_quantity_sold" -> tq
          [] c = "incremental_margin%" -> im]

\* a missing cell (an empty CSV field), NaN in pandas
nan == "nan"

RowPool ==
    <<MkRow("CAMP_DIW_01", "Grocery", "P01", "Atta", "BOGOF", "Bengaluru",
            2, 3, 0, 1, 1, 1),
      MkRow("CAMP_SAN_01", "Home", "P02", "Soap", "50% OFF", "Mysuru",
            0, 3, 2, 1, 3, -1),
      MkRow("CAMP_DIW_01", "Home", "P02", "Soap", "BOGOF", "Mysuru",
            2, 1, 1, 3, 4, 0)>>

DimValues(col) == {RowPool[i][col] : i \in 1..Len(RowPool)}

BSeq(S, n) == UNION {[1..k -> S] : k \in 0..n}

Restrict(f, S) == [x \in S |-> f[x]]

\* The dataframe read from a CSV with header `cols` and the pool rows `picks`.
Frame(cols, picks) ==
    [cols |-> cols,
     rows |-> [i \in 1..Len(picks) |->
                  [idx |-> i - 1, val |-> Restrict(RowPool[picks[i]], cols)]]]

EmptyFrame == [cols |-> {}, rows |-> <<>>]

----------------------------------------------------------------------------
(* scripts/data_loader.py: load_csv and get_all_datasets *)

\* CSV_ALIASES, in dict order
AliasOrder ==
    <<"campaign_data", "product_data", "stores_data", "event_data",
      "clean_revenue", "city_sales", "clean_all">>

Aliases == {AliasOrder[i] : i \in 1..Len(AliasOrder)}

CSV_ALIASES ==
    [a \in Aliases |->
        CASE a = "campaign_data" -> "dim_campaigns.csv"
          [] a = "product_data" -> "dim_products.csv"
          [] a = "stores_data" -> "dim_stores.csv"
          [] a = "event_data" -> "fact_events.csv"
          [] a = "clean_revenue" -> "clean_revenue.csv"
          [] a = "city_sales" -> "city_sales.csv"
          [] a = "clean_all" -> "clean_all.csv"]

Filenames == {CSV_ALIASES[a] : a \in Aliases}

\* rename_map, in dict order: <<alternate spelling, canonical name>>
rename_map ==
    <<<<"quantity_sold(before_promo)", "quantity_sold (before_promo)">>,
      <<"quantity_sold(after_promo)", "quantity_sold (after_promo)">>,
      <<"Incremental Revenue", "incremental_revenue">>,
      <<"IR%", "ir%">>,
      <<"ISU%", "isu%">>,
      <<"incremental_margin %", "incremental_margin%">>>>

\* c.strip(), on the column names with surrounding whitespace that the
\* modelled files use
strip(c) ==
    CASE c = " city" -> "city"
      [] c = "revenue_after_promo " -> "revenue_after_promo"
      [] c = " IR%" -> "IR%"
      [] c = "ir% " -> "ir%"
      [] OTHER -> c

\* a frame with its columns relabelled by f (f injective on d.cols)
relabel(d, f) ==
    LET new == {f[c] : c \in d.cols}
        old(n) == CHOOSE c \in d.cols : f[c] = n
    IN [cols |-> new,
        rows |-> [i \in 1..Len(d.rows) |->
                    [idx |-> d.rows[i].idx,
                     val |-> [n \in new |-> d.rows[i].val[old(n)]]]]]

\* df.columns = [c.strip() for c in df.columns]
strip_columns(d) == relabel(d, [c \in d.cols |-> strip(c)])

\* if k in df.columns and v not in df.columns: df.rename(columns={k: v})
rename_step(d, kv) ==
    IF kv[1] \in d.cols /\ kv[2] \notin d.cols
    THEN relabel(d, [c \in d.cols |-> IF c = kv[1] THEN kv[2] ELSE c])
    ELSE d

RECURSIVE rename_from(_, _)
rename_from(d, i) ==
    IF i > Len(rename_map) THEN d
    ELSE rename_from(rename_step(d, rename_map[i]), i + 1)

\* what load_csv does to the parsed frame (lines 116-131)
harmonize(d) == rename_from(strip_columns(d), 1)

\* the same two steps on df.columns as a list, where names may repeat
strip_names(h) == [i \in 1..Len(h) |-> strip(h[i])]

Names(h) == {h[i] : i \in 1..Len(h)}

rename_names(h, kv) ==
    IF kv[1] \in Names(h) /\ kv[2] \notin Names(h)
    THEN [i \in 1..Len(h) |-> IF h[i] = kv[1] THEN kv[2] ELSE h[i]]
    ELSE h

RECURSIVE rename_names_from(_, _)
rename_names_from(h, i) ==
    IF i > Len(rename_map) THEN h
    ELSE rename_names_from(rename_names(h, rename_map[i]), i + 1)

harmonize_names(h) == rename_names_from(strip_names(h), 1)

\* the file system under DATA_DIR: a file is absent, unparsable or holds a table
Absent == [status |-> "absent", raw |-> EmptyFrame]
Corrupt == [status |-> "corrupt", raw |-> EmptyFrame]
Holds(raw) == [status |-> "ok", raw |-> raw]

\* the outcome of one execution of the body of load_csv
Returned(value, alerts, nread) ==
    [raised |-> "", value |-> value, alerts |-> alerts, nread |-> nread]

Raised(exc) ==
    [raised |-> exc, value |-> EmptyFrame, alerts |-> {}, nread |-> 0]

load_csv_no_try(files, alias) ==
    IF alias \notin DOMAIN CSV_ALIASES THEN Raised("KeyError")
    ELSE LET filename == CSV_ALIASES[alias] IN
         IF files[filename].status = "absent"
         THEN Returned(EmptyFrame, {<<"warning", filename>>}, 0)
         ELSE IF files[filename].status = "corrupt"
              THEN [Raised("ParserError") EXCEPT !.nread = 1]
              ELSE Returned(harmonize(files[filename].raw), {}, 1)

\* load_csv (the decorated function's body): alerts are the st.warning /
\* st.error elements shown, nread the number of pd.read_csv calls made
load_csv(files, alias) ==
    IF alias \notin DOMAIN CSV_ALIASES THEN Raised("KeyError")
    ELSE LET filename == CSV_ALIASES[alias] IN
         IF files[filename].status = "absent"
         THEN Returned(EmptyFrame, {<<"warning", filename>>}, 0)
         ELSE IF files[filename].status = "corrupt"
              THEN Returned(EmptyFrame, {<<"error", filename>>}, 1)
              ELSE Returned(harmonize(files[filename].raw), {}, 1)

----------------------------------------------------------------------------
(* scripts/data_loader.py: apply_global_filters *)

\* filter_map: dataframe column -> session_state key
filter_map ==
    [c \in {"campaign_id", "category", "product_code", "promo_type", "city"} |->
        CASE c = "campaign_id" -> "campaigns"
          [] c = "category" -> "categories"
          [] c = "product_code" -> "products"
          [] c = "promo_type" -> "promo_types"
          [] c = "city" -> "cities"]

FilterKeys == {filter_map[c] : c \in DOMAIN filter_map}

\* df.empty: any axis of length 0
empty(d) == Len(d.rows) = 0 \/ d.cols = {}

\* state.get(key, [])
state_get(st, key) == IF key \in DOMAIN st THEN st[key] ELSE {}

RowIds(d) == {d.rows[i].idx : i \in 1..Len(d.rows)}

RowAt(d, x) == d.rows[CHOOSE i \in 1..Len(d.rows) : d.rows[i].idx = x]

\* isin that accepts every row
isin_any(d, col, selected_values) == [x \in RowIds(d) |-> TRUE]

\* df[col].isin(selected_values): a boolean Series over the index of df
isin(d, col, selected_values) ==
    [x \in RowIds(d) |-> RowAt(d, x).val[col] \in selected_values]

\* the columns for which a mask is appended to `filters`
active_filters(d, st) ==
    {col \in DOMAIN filter_map :
        col \in d.cols /\ state_get(st, filter_map[col]) # {}}

logical_or_reduce(d, st) ==
    [x \in RowIds(d) |->
        \E col \in active_filters(d, st) :
            isin(d, col, state_get(st, filter_map[col]))[x]]

\* np.logical_and.reduce(filters)
logical_and_reduce(d, st) ==
    [x \in RowIds(d) |->
        \A col \in active_filters(d, st) :
            isin(d, col, state_get(st, filter_map[col]))[x]]

\* df[mask]: the rows whose mask is True, in order, index labels kept
boolean_index(d, mask) ==
    LET keep(r) == mask[r.idx] IN [d EXCEPT !.rows = SelectSeq(d.rows, keep)]

\* isin([]) applied although nothing is selected
apply_no_selection_guard(d, st) ==
    IF empty(d) THEN d
    ELSE boolean_index(d,
            [x \in RowIds(d) |->
                \A col \in DOMAIN filter_map :
                    col \in d.cols =>
                        isin(d, col, state_get(st, filter_map[col]))[x]])

\* the mask applied one position off: row i is kept when row i-1 matches
apply_shifted_mask(d, st) ==
    IF empty(d) THEN d
    ELSE IF active_filters(d, st) # {}
         THEN boolean_index(d,
                [x \in RowIds(d) |->
                    \E i \in 2..Len(d.rows) :
                        /\ d.rows[i].idx = x
                        /\ logical_and_reduce(d, st)[d.rows[i - 1].idx]])
         ELSE d

apply_global_filters(d, st) ==
    IF empty(d) THEN d
    ELSE IF active_filters(d, st) # {}
         THEN boolean_index(d, logical_and_reduce(d, st))
         ELSE d

\* whether the object returned is the one passed in: `return df` on line 159,
\* and on line 181 when line 179 did not rebind df to the new df[mask]
returns_argument(d, st) ==
    IF empty(d) THEN TRUE
    ELSE IF active_filters(d, st) # {} THEN FALSE
         ELSE TRUE

----------------------------------------------------------------------------
(* Numbers: column sums and float64 quotients *)

Abs(n) == IF n < 0 THEN -n ELSE n

RECURSIVE Gcd(_, _)
Gcd(a, b) == IF b = 0 THEN a ELSE Gcd(b, a % b)

NaN == [kind |-> "nan", n |-> 0, d |-> 1]
PosInf == [kind |-> "inf", n |-> 1, d |-> 1]
NegInf == [kind |-> "inf", n |-> -1, d |-> 1]

\* the float n/d (d # 0), as a reduced fraction with a positive denominator
Frac(n, d) ==
    LET g == Gcd(Abs(n), Abs(d))
        sg == IF d < 0 THEN -1 ELSE 1
    IN [kind |-> "num", n |-> sg * (n \div g), d |-> Abs(d) \div g]

Zero == Frac(0, 1)

\* a / b on numpy scalars: a zero divisor gives nan or +-inf with a warning
true_divide(a, b) ==
    IF b # 0 THEN Frac(a, b)
    ELSE IF a = 0 THEN NaN ELSE IF a > 0 THEN PosInf ELSE NegInf

\* x * 100 on a float
times(x, k) == IF x.kind = "num" THEN Frac(x.n * k, x.d) ELSE x

\* df[col].sum()
RECURSIVE sum_from(_, _, _)
sum_from(d, col, i) ==
    IF i > Len(d.rows) THEN 0
    ELSE d.rows[i].val[col] + sum_from(d, col, i + 1)

column_sum(d, col) == sum_from(d, col, 1)

----------------------------------------------------------------------------
(* dashboard.py: session state, filter widgets, KPI summary and KPI chart *)

None == "None"

\* init_session_state: the defaults of the keys the data layer reads
Defaults ==
    [k \in FilterKeys \cup {"kpi_focus", "selected_city"} |->
        CASE k = "kpi_focus" -> "Revenue"
          [] k = "selected_city" -> None
          [] OTHER -> {}]

\* for k, v in defaults.items(): if k not in st.session_state: ... = v
init_session_state(ss) ==
    [k \in DOMAIN Defaults \cup DOMAIN ss |->
        IF k \in DOMAIN ss THEN ss[k] ELSE Defaults[k]]

\* the column each multiselect takes its options from (lines 74-112)
options_column ==
    [k \in FilterKeys |->
        CASE k = "campaigns" -> "campaign_id"
          [] k = "categories" -> "category"
          [] k = "products" -> "product_name"
          [] k = "promo_types" -> "promo_type"
          [] k = "cities" -> "city"]

\* safe_unique(clean_all.get(col, pd.Series()))
safe_unique(d, col) ==
    IF col \in d.cols THEN {d.rows[i].val[col] : i \in 1..Len(d.rows)} ELSE {}

\* metric families: <<before column, after column>>
family_columns ==
    [f \in {"Revenue", "Units"} |->
        IF f = "Revenue"
        THEN <<"revenue_before_promo", "revenue_after_promo">>
        ELSE <<"quantity_sold (before_promo)", "quantity_sold (after_promo)">>]

\* st.session_state.get(key, default)
ss_get(ss, key, default) == IF key \in DOMAIN ss THEN ss[key] ELSE default

\* the focus compared with the city of every row, "All" included
focus_scope_literal(d, focus_city) ==
    IF focus_city # None /\ "city" \in d.cols
    THEN boolean_index(d, [x \in RowIds(d) |-> RowAt(d, x).val["city"] = focus_city])
    ELSE d

\* if focus_city and focus_city != "All" and "city" in df.columns:
\*     df = df[df["city"] == focus_city]
focus_scope(d, focus_city) ==
    IF focus_city # None /\ focus_city # "All" /\ "city" \in d.cols
    THEN boolean_index(d, [x \in RowIds(d) |-> RowAt(d, x).val["city"] = focus_city])
    ELSE d

\* scope_df of the KPI summary before the category narrowing (lines 165-169)
city_scope(d, ss) == focus_scope(d, ss_get(ss, "selected_city", None))

\* df_sb of the sunburst after its city scoping (analytics page, lines 350-352)
sunburst_city_scope(d, ss) == focus_scope(d, ss_get(ss, "selected_city", "All"))

\* scope_df after lines 172-174 (when "category" is a column)
category_scope(d, ss) ==
    IF ss_get(ss, "categories", {}) # {}
    THEN boolean_index(d, isin(d, "category", ss_get(ss, "categories", {})))
    ELSE d

percent_floor(before, after) ==
    IF before # 0
    THEN Frac(((after - before) * 100) \div before, 1)
    ELSE Zero

\* ((after - before) / before * 100) if before else 0   (lines 181-183, 192-196)
guarded_percent(before, after) ==
    IF before # 0
    THEN times(true_divide(after - before, before), 100)
    ELSE Zero

\* (after - before) / before * 100   (lines 205, 208)
unguarded_percent(before, after) ==
    times(true_divide(after - before, before), 100)

NoCards == <<>>
NoChart == [drawn |-> FALSE, y_values |-> <<>>, ir_value |-> Zero]
\* the lookup failure swallowed and zeros shown instead
zero_result(cards, col) ==
    [exc |-> <<>>, cards |-> <<0, 0, Zero>>, chart |-> NoChart]

\* df[col] on an absent column: pandas raises KeyError(col), the script stops
KeyError(cards, col) ==
    [exc |-> <<"KeyError", col>>, cards |-> cards, chart |-> NoChart]

\* the first of `required` that df[col] fails on, as a set (empty: none fails)
first_missing(required, d) ==
    LET miss == {i \in 1..Len(required) : required[i] \notin d.cols} IN
    IF miss = {} THEN {}
    ELSE {required[CHOOSE i \in miss : \A j \in miss : i <= j]}

\* pd.read_csv gives the columns of a file with a header and no data row the
\* object dtype; the sum of an empty object column is the Python int 0, while
\* the columns of a file with data rows are numeric and sum to a numpy scalar
python_int_sums(loaded) == Len(loaded.rows) = 0

\* Python int division by zero (lines 205, 208 on object columns)
ZeroDivisionError(cards) ==
    [exc |-> <<"ZeroDivisionError", "division by zero">>, cards |-> cards,
     chart |-> NoChart]

\* lines 161-286: KPI summary cards, the recomputation and the chart values
kpi_summary(loaded, filtered, ss) ==
    LET scope1 == city_scope(filtered, ss)
        kpi_focus == ss_get(ss, "kpi_focus", "Revenue")
        fam == family_columns[kpi_focus]
        all4 == family_columns["Revenue"] \o family_columns["Units"]
    IN
    IF ss_get(ss, "categories", {}) # {} /\ "category" \notin scope1.cols
    THEN KeyError(NoCards, "category")
    ELSE
    LET scope_df == category_scope(scope1, ss)
        m1 == first_missing(fam, scope_df)
        m2 == first_missing(all4, scope_df)
    IN
    IF m1 # {} THEN KeyError(NoCards, CHOOSE c \in m1 : TRUE)
    ELSE
    LET before == column_sum(scope_df, fam[1])
        after == column_sum(scope_df, fam[2])
        cards == <<before, after, guarded_percent(before, after)>>
    IN
    IF m2 # {} THEN KeyError(cards, CHOOSE c \in m2 : TRUE)
    ELSE IF python_int_sums(loaded) THEN ZeroDivisionError(cards)
    ELSE
    LET total_before == column_sum(scope_df, all4[1])
        total_after == column_sum(scope_df, all4[2])
        ir_percent == unguarded_percent(total_before, total_after)
        total_units_before == column_sum(scope_df, all4[3])
        total_units_after == column_sum(scope_df, all4[4])
        isu_percent == unguarded_percent(total_units_before, total_units_after)
    IN
    [exc |-> <<>>,
     cards |-> cards,
     chart |-> IF kpi_focus = "Revenue"
               THEN [drawn |-> TRUE,
                     y_values |-> <<total_before, total_after>>,
                     ir_value |-> ir_percent]
               ELSE [drawn |-> TRUE,
                     y_values |-> <<total_units_before, total_units_after>>,
                     ir_value |-> isu_percent]]

NotRendered == [exc |-> <<>>, cards |-> NoCards, chart |-> NoChart]

----------------------------------------------------------------------------
(* pages/1_Advanced_Analytics.py: Sankey and faceted before/after KPI *)

\* every cell value of a dimension column, in the order Python sorts strings
LabelOrder ==
    <<"50% OFF", "Atta", "BOGOF", "Bengaluru", "CAMP_DIW_01", "CAMP_SAN_01",
      "Festive", "Grocery", "Home", "Mysuru", "P01", "P02", "P03", "Soap">>

Rank(v) == CHOOSE i \in 1..Len(LabelOrder) : LabelOrder[i] = v

\* step of the threshold slider (line 199)
SliderStep == 100

\* df[col].unique().tolist(): distinct values in order of first appearance
RECURSIVE unique_from(_, _, _, _)
unique_from(d, col, i, acc) ==
    IF i > Len(d.rows) THEN acc
    ELSE LET v == d.rows[i].val[col] IN
         unique_from(d, col, i + 1,
                     IF \E j \in 1..Len(acc) : acc[j] = v THEN acc
                     ELSE Append(acc, v))

unique(d, col) == unique_from(d, col, 1, <<>>)

\* {label: i for i, label in enumerate(labels)}: a repeated label keeps its
\* last position
label_indices(labels) ==
    [l \in {labels[i] : i \in 1..Len(labels)} |->
        (CHOOSE i \in 1..Len(labels) :
            labels[i] = l /\ \A j \in 1..Len(labels) : labels[j] = l => j <= i) - 1]

\* the group keys of groupby([c1, c2]), sorted
RECURSIVE sorted_pairs(_)
sorted_pairs(S) ==
    IF S = {} THEN <<>>
    ELSE LET least == CHOOSE p \in S : \A q \in S :
                        \/ Rank(p[1]) < Rank(q[1])
                        \/ Rank(p[1]) = Rank(q[1]) /\ Rank(p[2]) <= Rank(q[2])
         IN <<least>> \o sorted_pairs(S \ {least})

RECURSIVE pair_sum(_, _, _, _, _, _)
pair_sum(d, c1, c2, p, value_col, i) ==
    IF i > Len(d.rows) THEN 0
    ELSE (IF d.rows[i].val[c1] = p[1] /\ d.rows[i].val[c2] = p[2]
          THEN d.rows[i].val[value_col] ELSE 0)
         + pair_sum(d, c1, c2, p, value_col, i + 1)

\* each row an edge of its own, in row order, instead of one per group
links_per_row(d, c1, c2, value_col, index) ==
    [i \in 1..Len(d.rows) |->
        [source |-> index[d.rows[i].val[c1]],
         target |-> index[d.rows[i].val[c2]],
         value |-> d.rows[i].val[value_col]]]

\* df.groupby([c1, c2])[value_col].sum().reset_index(), mapped to node indices;
\* groupby drops the rows with NaN in a key column
links(d, c1, c2, value_col, index) ==
    LET keys == sorted_pairs({<<d.rows[i].val[c1], d.rows[i].val[c2]>> :
                                 i \in {j \in 1..Len(d.rows) :
                                    /\ d.rows[j].val[c1] # nan
                                    /\ d.rows[j].val[c2] # nan}})
    IN [k \in 1..Len(keys) |->
          [source |-> index[keys[k][1]],
           target |-> index[keys[k][2]],
           value |-> pair_sum(d, c1, c2, keys[k], value_col, 1)]]

sankey_required ==
    {"campaign_id", "promo_type", "category", "revenue_after_promo",
     "total_quantity_sold"}

sankey_value_col(metric) ==
    IF metric = "Revenue" THEN "revenue_after_promo" ELSE "total_quantity_sold"

\* df[col].max() of a non-empty integer column
column_max(d, col) ==
    CHOOSE m \in {d.rows[i].val[col] : i \in 1..Len(d.rows)} :
        \A i \in 1..Len(d.rows) : d.rows[i].val[col] <= m

\* the values the threshold slider can return: min_value 0, max_value
\* int(df[value_col].max()), step 100
slider_values(d, metric) ==
    IF sankey_required \subseteq d.cols /\ Len(d.rows) > 0
    THEN {v \in 0..column_max(d, sankey_value_col(metric)) : v % SliderStep = 0}
    ELSE {0}

SankeyOut(value_col, min_value, exc, warning, labels, edges, drawn) ==
    [value_col |-> value_col, min_value |-> min_value, exc |-> exc,
     warning |-> warning, labels |-> labels, edges |-> edges, drawn |-> drawn]

SankeyNotRendered == SankeyOut("", 0, <<>>, {}, <<>>, <<>>, FALSE)

\* labels = campaigns + promos + categories (lines 206-209)
level_labels(d) ==
    unique(d, "campaign_id") \o unique(d, "promo_type") \o unique(d, "category")

\* lines 176-253
sankey_section(filtered, metric, min_value) ==
    IF ~(sankey_required \subseteq filtered.cols)
    THEN SankeyOut("", 0, <<>>, sankey_required \ filtered.cols, <<>>, <<>>, FALSE)
    ELSE
    LET value_col == sankey_value_col(metric) IN
    \* int(df_sankey[value_col].max()): the max of no rows is nan
    IF Len(filtered.rows) = 0
    THEN SankeyOut(value_col, 0,
                   <<"ValueError", "cannot convert float NaN to integer">>,
                   {}, <<>>, <<>>, FALSE)
    ELSE
    LET df_sankey == boolean_index(filtered,
                        [x \in RowIds(filtered) |->
                            RowAt(filtered, x).val[value_col] >= min_value])
        labels == level_labels(df_sankey)
        index == label_indices(labels)
    IN SankeyOut(value_col, min_value, <<>>, {}, labels,
                 links(df_sankey, "campaign_id", "promo_type", value_col, index)
                 \o links(df_sankey, "promo_type", "category", value_col, index),
                 TRUE)

FacetOut(kpi_option, warning, bars, drawn) ==
    [kpi_option |-> kpi_option, warning |-> warning, bars |-> bars,
     drawn |-> drawn]

FacetNotRendered == FacetOut("", {}, <<>>, FALSE)

\* df_facet.melt(...): the "Before" rows, then the "After" rows
melt(d, before_col, after_col) ==
    [k \in 1..(2 * Len(d.rows)) |->
        LET i == IF k <= Len(d.rows) THEN k ELSE k - Len(d.rows) IN
        [campaign_id |-> d.rows[i].val["campaign_id"],
         product_code |-> d.rows[i].val["product_code"],
         Period |-> IF k <= Len(d.rows) THEN "Before" ELSE "After",
         value |-> d.rows[i].val[IF k <= Len(d.rows) THEN before_col ELSE after_col]]]

\* lines 271-327
facet_section(filtered, kpi_option) ==
    LET before_col == family_columns[kpi_option][1]
        after_col == family_columns[kpi_option][2]
        required_cols == {"campaign_id", "product_code", before_col, after_col}
        missing_cols == required_cols \ filtered.cols
    IN IF missing_cols # {}
       THEN FacetOut(kpi_option, missing_cols, <<>>, FALSE)
       ELSE FacetOut(kpi_option, {}, melt(filtered, before_col, after_col), TRUE)

----------------------------------------------------------------------------
(* pages/1_Advanced_Analytics.py: the sunburst's rollup and top-N pruning *)

sunburst_required ==
    {"campaign_id", "promo_type", "category", "product_code",
     "incremental_margin%", "revenue_after_promo", "total_quantity_sold"}

\* path (line 371)
sunburst_path == <<"campaign_id", "promo_type", "category", "product_code">>

path_of(r) == [k \in 1..Len(sunburst_path) |-> r.val[sunburst_path[k]]]

\* tuple order of the sorted group keys
LexLeq(p, q) ==
    \E k \in 1..(Len(p) + 1) :
        /\ \A j \in 1..(k - 1) : p[j] = q[j]
        /\ k = Len(p) + 1 \/ Rank(p[k]) < Rank(q[k])

RECURSIVE sorted_keys(_)
sorted_keys(S) ==
    IF S = {} THEN <<>>
    ELSE LET least == CHOOSE p \in S : \A q \in S : LexLeq(p, q)
         IN <<least>> \o sorted_keys(S \ {least})

\* the group keys of groupby(path): rows with NaN in a key column are dropped
group_keys(d) ==
    {path_of(d.rows[i]) : i \in {j \in 1..Len(d.rows) :
        \A k \in 1..Len(sunburst_path) : d.rows[j].val[sunburst_path[k]] # nan}}

\* the first row of the group in place of its sum and mean
first_of_group(d, key, col, i) ==
    d.rows[CHOOSE j \in 1..Len(d.rows) :
              /\ path_of(d.rows[j]) = key
              /\ \A m \in 1..(j - 1) : path_of(d.rows[m]) # key].val[col]

RECURSIVE group_sum(_, _, _, _)
group_sum(d, key, col, i) ==
    IF i > Len(d.rows) THEN 0
    ELSE (IF path_of(d.rows[i]) = key THEN d.rows[i].val[col] ELSE 0)
         + group_sum(d, key, col, i + 1)

group_size(d, key) ==
    Cardinality({i \in 1..Len(d.rows) : path_of(d.rows[i]) = key})

\* df_sb.groupby(path, as_index=False).agg(value_col sum, margin mean)
rollup(d, value_col) ==
    LET keys == sorted_keys(group_keys(d))
    IN [k \in 1..Len(keys) |->
          [path |-> keys[k],
           value |-> group_sum(d, keys[k], value_col, 1),
           incremental_margin_pct |->
               Frac(group_sum(d, keys[k], "incremental_margin%", 1),
                    group_size(d, keys[k]))]]

leaf(node) == node.path[Len(sunburst_path)]

Leaves(agg) == {leaf(agg[i]) : i \in 1..Len(agg)}

\* agg.groupby("product_code")[value_col].sum()
RECURSIVE leaf_total(_, _, _)
leaf_total(agg, l, i) ==
    IF i > Len(agg) THEN 0
    ELSE (IF leaf(agg[i]) = l THEN agg[i].value ELSE 0) + leaf_total(agg, l, i + 1)

\* the groups ranked one by one instead of their leaves
nlargest_groups(agg, n) ==
    {leaf(agg[i]) : i \in {j \in 1..Len(agg) :
        Cardinality({m \in 1..Len(agg) :
            \/ agg[m].value > agg[j].value
            \/ agg[m].value = agg[j].value /\ m < j}) < n}}

\* .nlargest(top_n).index.tolist(): the n largest totals, the earlier leaf of
\* the sorted index first among equal totals
nlargest(agg, n) ==
    {l \in Leaves(agg) :
        Cardinality({m \in Leaves(agg) :
            \/ leaf_total(agg, m, 1) > leaf_total(agg, l, 1)
            \/ /\ leaf_total(agg, m, 1) = leaf_total(agg, l, 1)
               /\ Rank(m) < Rank(l)}) < n}

\* lines 380-384
prune(agg, top_n) ==
    IF top_n > 0
    THEN LET top_leaves == nlargest(agg, top_n)
             keep(node) == leaf(node) \in top_leaves
         IN SelectSeq(agg, keep)
    ELSE agg

SunburstOut(warning, value_col, top_n, nodes) ==
    [warning |-> warning, value_col |-> value_col, top_n |-> top_n,
     nodes |-> nodes]

SunburstNotRendered == SunburstOut({}, "", 0, <<>>)

\* lines 329-384: nodes is the agg handed to px.sunburst
sunburst_section(filtered, ss, top_n) ==
    LET missing == sunburst_required \ filtered.cols IN
    IF missing # {} THEN SunburstOut(missing, "", 0, <<>>)
    ELSE LET df_sb == sunburst_city_scope(filtered, ss)
             value_col == IF ss_get(ss, "kpi_focus", "Revenue") = "Revenue"
                          THEN "revenue_after_promo"
                          ELSE "total_quantity_sold"
         IN SunburstOut({}, value_col, top_n,
                        prune(rollup(df_sb, value_col), top_n))

----------------------------------------------------------------------------
(* The loads of the three pages, through st.cache_data *)

Sessions == 1..MaxSessions
Pages == {"dashboard", "analytics", "explorer"}
\* dashboard.py and 1_Advanced_Analytics.py wrap get_all_datasets in a cached
\* load_data; 2_Data_Explorer.py calls get_all_datasets directly
CachedPages == {"dashboard", "analytics"}
NoDatasets == [a \in {} |-> EmptyFrame]

NoEntry == [hit |-> FALSE, value |-> EmptyFrame, alerts |-> {}]
Entry(out) == [hit |-> TRUE, value |-> out.value, alerts |-> out.alerts]
NoPageEntry == [hit |-> FALSE, value |-> NoDatasets]

cache_never_hit(cache, key) == NoEntry

\* the cache lookup st.cache_data makes before running the function
cache_read(cache, key) == cache[key]

Idle == [page |-> "dashboard", pc |-> "idle", i |-> 1, datasets |-> NoDatasets]

\* the script of a page starts (a first visit or a rerun)
StartRun(s, page) ==
    /\ sess[s].pc = "idle"
    /\ sess' = [sess EXCEPT ![s] =
                  [Idle EXCEPT !.page = page,
                               !.pc = IF page \in CachedPages
                                      THEN "load_data" ELSE "iter"]]
    /\ UNCHANGED <<disk, csv_cache, page_cache, locks, nreads, fvars, dvars>>

\* load_data(): cache hit returns the cached dict, a miss goes for the lock
LoadDataLookup(s) ==
    /\ sess[s].pc = "load_data"
    /\ IF page_cache[sess[s].page].hit
       THEN sess' = [sess EXCEPT ![s].pc = "loaded",
                                 ![s].datasets = page_cache[sess[s].page].value]
       ELSE sess' = [sess EXCEPT ![s].pc = "load_data_lock"]
    /\ UNCHANGED <<disk, csv_cache, page_cache, locks, nreads, fvars, dvars>>

\* the compute lock of load_data is taken and the cache read again
LoadDataAcquire(s) ==
    /\ sess[s].pc = "load_data_lock"
    /\ locks[sess[s].page] = 0
    /\ IF page_cache[sess[s].page].hit
       THEN /\ sess' = [sess EXCEPT ![s].pc = "loaded",
                                    ![s].datasets = page_cache[sess[s].page].value]
            /\ UNCHANGED locks
       ELSE /\ sess' = [sess EXCEPT ![s].pc = "iter"]
            /\ locks' = [locks EXCEPT ![sess[s].page] = s]
    /\ UNCHANGED <<disk, csv_cache, page_cache, nreads, fvars, dvars>>

\* {alias: load_csv(alias) for alias in CSV_ALIASES}: the next alias, cache hit
\* or miss
CsvLookup(s) ==
    /\ sess[s].pc = "iter"
    /\ sess[s].i <= Len(AliasOrder)
    /\ LET alias == AliasOrder[sess[s].i]
           e == cache_read(csv_cache, alias)
       IN IF e.hit
          THEN sess' = [sess EXCEPT ![s].datasets = alias :> e.value @@ @,
                                    ![s].i = @ + 1]
          ELSE sess' = [sess EXCEPT ![s].pc = "csv_lock"]
    /\ UNCHANGED <<disk, csv_cache, page_cache, locks, nreads, fvars, dvars>>

\* the compute lock of the alias is taken and the cache read again
CsvAcquire(s) ==
    /\ sess[s].pc = "csv_lock"
    /\ LET alias == AliasOrder[sess[s].i]
           e == cache_read(csv_cache, alias)
       IN /\ locks[alias] = 0
          /\ IF e.hit
             THEN /\ sess' = [sess EXCEPT ![s].datasets = alias :> e.value @@ @,
                                          ![s].i = @ + 1,
                                          ![s].pc = "iter"]
                  /\ UNCHANGED locks
             ELSE /\ sess' = [sess EXCEPT ![s].pc = "csv_compute"]
                  /\ locks' = [locks EXCEPT ![alias] = s]
    /\ UNCHANGED <<disk, csv_cache, page_cache, nreads, fvars, dvars>>

\* the body of load_csv runs under the lock; its result is cached and returned
CsvCompute(s) ==
    /\ sess[s].pc = "csv_compute"
    /\ LET alias == AliasOrder[sess[s].i]
           out == load_csv(disk, alias)
       IN /\ nreads[CSV_ALIASES[alias]] + out.nread <= MaxReads
          /\ nreads' = [nreads EXCEPT ![CSV_ALIASES[alias]] = @ + out.nread]
          /\ IF out.raised # ""
             THEN /\ sess' = [sess EXCEPT ![s].pc = "crashed"]
                  /\ locks' = [k \in DOMAIN locks |->
                                 IF locks[k] = s THEN 0 ELSE locks[k]]
                  /\ UNCHANGED csv_cache
             ELSE /\ csv_cache' = [csv_cache EXCEPT ![alias] = Entry(out)]
                  /\ locks' = [locks EXCEPT ![alias] = 0]
                  /\ sess' = [sess EXCEPT
                                ![s].datasets = alias :> out.value @@ @,
                                ![s].i = @ + 1,
                                ![s].pc = "iter"]
    /\ UNCHANGED <<disk, page_cache, fvars, dvars>>

\* get_all_datasets returns; load_data caches the dict and frees its lock
FinishLoad(s) ==
    /\ sess[s].pc = "iter"
    /\ sess[s].i > Len(AliasOrder)
    /\ sess' = [sess EXCEPT ![s].pc = "loaded"]
    /\ IF sess[s].page \in CachedPages
       THEN /\ page_cache' = [page_cache EXCEPT ![sess[s].page] =
                                [hit |-> TRUE, value |-> sess[s].datasets]]
            /\ locks' = [locks EXCEPT ![sess[s].page] = 0]
       ELSE UNCHANGED <<page_cache, locks>>
    /\ UNCHANGED <<disk, csv_cache, nreads, fvars, dvars>>

\* the script run ends; the session may rerun or open another page
EndRun(s) ==
    /\ sess[s].pc \in {"loaded", "crashed"}
    /\ sess' = [sess EXCEPT ![s] = Idle]
    /\ UNCHANGED <<disk, csv_cache, page_cache, locks, nreads, fvars, dvars>>

----------------------------------------------------------------------------
(* One session using the dashboard and the analytics page *)

\* load_data() / get_all_datasets() of a page script, run without
\* interleaving: every alias goes through the cache of load_csv, and
\* clean_all is datasets.get("clean_all")
load_data(pg) ==
    /\ csv_cache' = [a \in Aliases |->
                       IF cache_read(csv_cache, a).hit THEN csv_cache[a]
                       ELSE Entry(load_csv(disk, a))]
    /\ nreads' = [f \in Filenames |->
                    LET a == CHOOSE x \in Aliases : CSV_ALIASES[x] = f IN
                    IF cache_read(csv_cache, a).hit THEN nreads[f]
                    ELSE nreads[f] + load_csv(disk, a).nread]
    /\ page_cache' = [p \in CachedPages |->
                        IF p = pg /\ ~page_cache[p].hit
                        THEN [hit |-> TRUE,
                              value |-> [a \in Aliases |-> csv_cache'[a].value]]
                        ELSE page_cache[p]]
    /\ clean_all' = page_cache'[pg].value["clean_all"]
    /\ UNCHANGED <<disk, locks, sess>>

\* dashboard.py from the filters to the KPI chart (lines 157-286, for
\* clean_all), with ss the session state after the widgets assigned to it
dashboard_script(ss) ==
    /\ Cardinality({k \in FilterKeys : ss[k] # {}}) <= MaxSelected
    /\ session_state' = ss
    /\ current_page' = "dashboard"
    /\ filtered_clean_all' = apply_global_filters(clean_all', ss)
    /\ kpi' = kpi_summary(clean_all', filtered_clean_all', ss)
    /\ sankey' = SankeyNotRendered
    /\ facet' = FacetNotRendered
    /\ sunburst' = SunburstNotRendered
    /\ UNCHANGED fvars

\* the dashboard runs after the user set one multiselect to a list of its
\* options (setting it to what it holds is a plain rerun)
RunDashboard ==
    /\ load_data("dashboard")
    /\ \E key \in FilterKeys :
          \E value \in SUBSET safe_unique(clean_all', options_column[key]) :
              dashboard_script([init_session_state(session_state)
                                   EXCEPT ![key] = value])

\* the dashboard runs after the user set the KPI Focus radio
RunDashboardFocus ==
    /\ load_data("dashboard")
    /\ \E value \in {"Revenue", "Units"} :
          dashboard_script([init_session_state(session_state)
                               EXCEPT !["kpi_focus"] = value])

\* 1_Advanced_Analytics.py runs with the two radios and the slider as set:
\* lines 19-32 and 174-384; an exception in the Sankey section ends the script
RunAnalytics ==
    /\ load_data("analytics")
    /\ filtered_clean_all' = apply_global_filters(clean_all', session_state)
    /\ current_page' = "analytics"
    /\ kpi' = NotRendered
    /\ \E metric \in {"Revenue", "Units"} :
          \E min_value \in slider_values(filtered_clean_all', metric) :
              sankey' = sankey_section(filtered_clean_all', metric, min_value)
    /\ \E kpi_option \in {"Revenue", "Units"} :
          facet' = IF sankey'.exc # <<>> THEN FacetNotRendered
                   ELSE facet_section(filtered_clean_all', kpi_option)
    /\ \E top_n \in {0, 1} :
          sunburst' = IF sankey'.exc # <<>> THEN SunburstNotRendered
                      ELSE sunburst_section(filtered_clean_all', session_state, top_n)
    /\ UNCHANGED <<session_state, fvars>>

----------------------------------------------------------------------------
(* Initial values and the loader's specification *)

DashIdle ==
    /\ clean_all = EmptyFrame
    /\ session_state = [k \in {} |-> {}]
    /\ current_page = ""
    /\ filtered_clean_all = EmptyFrame
    /\ kpi = NotRendered
    /\ sankey = SankeyNotRendered
    /\ facet = FacetNotRendered
    /\ sunburst = SunburstNotRendered

\* the tables the modelled files hold
EventsRaw ==
    relabel(Frame({"campaign_id", "product_code", "promo_type",
                   "quantity_sold (before_promo)", "quantity_sold (after_promo)"},
                  <<1, 2>>),
            [c \in {"campaign_id", "product_code", "promo_type",
                    "quantity_sold (before_promo)", "quantity_sold (after_promo)"} |->
                CASE c = "quantity_sold (before_promo)" -> "quantity_sold(before_promo)"
                  [] c = "quantity_sold (after_promo)" -> "quantity_sold(after_promo)"
                  [] OTHER -> c])

CitySalesRaw ==
    relabel(Frame({"city", "total_quantity_sold"}, <<1, 2>>),
            [c \in {"city", "total_quantity_sold"} |->
                IF c = "city" THEN " city" ELSE c])

SampleRaw(filename) ==
    CASE filename = "fact_events.csv" -> EventsRaw
      [] filename = "city_sales.csv" -> CitySalesRaw
      [] filename = "clean_all.csv" -> Frame(AllCols, <<1, 2>>)
      [] filename = "clean_revenue.csv" -> Frame(AllCols \ {"category"}, <<3>>)
      [] filename = "dim_products.csv" ->
            Frame({"product_code", "product_name", "category"}, <<1, 2>>)
      [] filename = "dim_stores.csv" -> Frame({"city"}, <<1, 2>>)
      [] OTHER -> Frame({"campaign_id"}, <<1, 2>>)

\* every file readable; then files alternately absent and unparsable, both ways
LoadDisks ==
    {[f \in Filenames |-> Holds(SampleRaw(f))],
     [f \in Filenames |->
        IF f \in {CSV_ALIASES[AliasOrder[i]] : i \in {1, 3, 5, 7}}
        THEN Absent ELSE Corrupt],
     [f \in Filenames |->
        IF f \in {CSV_ALIASES[AliasOrder[i]] : i \in {1, 3, 5, 7}}
        THEN Corrupt ELSE Absent]}

FilterIdle ==
    /\ df = EmptyFrame
    /\ state = [k \in FilterKeys |-> {}]
    /\ result = EmptyFrame
    /\ result_is_df = FALSE
    /\ fpc = "args"
    /\ header = <<>>
    /\ columns = <<>>

LoadIdle ==
    /\ csv_cache = [a \in Aliases |-> NoEntry]
    /\ page_cache = [p \in CachedPages |-> NoPageEntry]
    /\ locks = [k \in Aliases \cup CachedPages |-> 0]
    /\ nreads = [f \in Filenames |-> 0]
    /\ sess = [s \in Sessions |-> Idle]

InitLoad ==
    /\ disk \in LoadDisks
    /\ LoadIdle
    /\ FilterIdle
    /\ DashIdle

NextLoad ==
    \E s \in Sessions :
        \/ \E page \in Pages : StartRun(s, page)
        \/ LoadDataLookup(s)
        \/ LoadDataAcquire(s)
        \/ CsvLookup(s)
        \/ CsvAcquire(s)
        \/ CsvCompute(s)
        \/ FinishLoad(s)
        \/ EndRun(s)

SpecLoad == InitLoad /\ [][NextLoad]_vars

----------------------------------------------------------------------------
(* The session's specification *)

\* the headers clean_all.csv is modelled with
CleanAllCols ==
    {AllCols,
     AllCols \ {"revenue_after_promo"},
     AllCols \ {"category", "quantity_sold (before_promo)"}}

CleanAllFiles ==
    {Absent, Corrupt} \cup
    {Holds(Frame(cols, picks)) : cols \in CleanAllCols,
                                 picks \in BSeq(1..Len(RowPool), MaxRows)}

Init ==
    /\ disk \in {[f \in Filenames |->
                    IF f = "clean_all.csv" THEN c ELSE Absent] : c \in CleanAllFiles}
    /\ LoadIdle
    /\ FilterIdle
    /\ DashIdle

Next ==
    \/ RunDashboard
    \/ RunDashboardFocus
    \/ RunAnalytics

Spec == Init /\ [][Next]_vars

----------------------------------------------------------------------------
(* The filter as a function: any dataframe, any state dict *)

FrameCols ==
    {AllCols, AllCols \ {"category"}, AllCols \ {"campaign_id", "city"}}

Frames ==
    {EmptyFrame} \cup
    {Frame(cols, picks) : cols \in FrameCols,
                          picks \in BSeq(1..Len(RowPool), MaxRows)}

\* every key present, each holding a list of values of the column it filters
FullStates ==
    [campaigns : SUBSET DimValues("campaign_id"),
     categories : SUBSET DimValues("category"),
     products : SUBSET DimValues("product_code"),
     promo_types : SUBSET DimValues("promo_type"),
     cities : SUBSET DimValues("city")]

Active(st) == {k \in DOMAIN st : st[k] # {}}

\* the keys a state dict may lack
MissingKeys == {{}, {"categories", "cities"}, FilterKeys}

\* state dicts: a key may be missing, hold [] or hold a non-empty selection
StateDicts ==
    {Restrict(st, FilterKeys \ ms) :
        st \in {s \in FullStates : Cardinality(Active(s)) <= MaxActive},
        ms \in MissingKeys}

InitFilter ==
    /\ df \in Frames
    /\ state \in StateDicts
    /\ result = EmptyFrame
    /\ result_is_df = FALSE
    /\ fpc = "args"
    /\ header = <<>>
    /\ columns = <<>>
    /\ disk = [f \in Filenames |-> Absent]
    /\ LoadIdle
    /\ DashIdle

CallFilter ==
    /\ fpc = "args"
    /\ result' = apply_global_filters(df, state)
    /\ result_is_df' = returns_argument(df, state)
    /\ fpc' = "returned"
    /\ UNCHANGED <<df, state, header, columns>>

NextFilter == CallFilter /\ UNCHANGED <<lvars, dvars>>

SpecFilter == InitFilter /\ [][NextFilter]_vars

----------------------------------------------------------------------------
(* The column normalisation of load_csv as a function of the file's header *)

\* column names a file may carry: canonical names, alternate spellings of
\* rename_map and variants with surrounding whitespace
NamePool == <<"city", " city", "IR%", " IR%", "ir%", "ir% ", "promo_type">>

\* pd.read_csv makes the parsed names distinct (a repeated name gets ".1")
Headers ==
    {h \in BSeq(Names(NamePool), MaxCols) :
        \A i, j \in 1..Len(h) : h[i] = h[j] => i = j}

InitHeader ==
    /\ header \in Headers
    /\ columns = <<>>
    /\ df = EmptyFrame
    /\ state = [k \in FilterKeys |-> {}]
    /\ result = EmptyFrame
    /\ result_is_df = FALSE
    /\ fpc = "args"
    /\ disk = [f \in Filenames |-> Absent]
    /\ LoadIdle
    /\ DashIdle

\* load_csv lines 116-131 on df.columns
NormalizeHeader ==
    /\ fpc = "args"
    /\ columns' = harmonize_names(header)
    /\ fpc' = "loaded"
    /\ UNCHANGED <<df, state, result, result_is_df, header, lvars, dvars>>

NextHeader == NormalizeHeader

SpecHeader == InitHeader /\ [][NextHeader]_vars

----------------------------------------------------------------------------
(* The sunburst's rollup as a function: any scoped table, any top N *)

\* rows with a repeated path, a leaf under two paths, three leaves and a
\* missing path segment
RollupPool ==
    <<MkRow("CAMP_DIW_01", "Grocery", "P01", "Atta", "BOGOF", "Bengaluru",
            0, 2, 0, 0, 2, 1),
      MkRow("CAMP_DIW_01", "Grocery", "P01", "Atta", "BOGOF", "Mysuru",
            0, 1, 0, 0, 1, 2),
      MkRow("CAMP_SAN_01", "Grocery", "P01", "Atta", "50% OFF", "Mysuru",
            0, 2, 0, 0, 1, -1),
      MkRow("CAMP_DIW_01", "Home", "P02", "Soap", "BOGOF", "Mysuru",
            0, 5, 0, 0, 1, 0),
      MkRow("CAMP_DIW_01", "Home", "P03", "Soap", nan, "Bengaluru",
            0, 4, 0, 0, 5, 3),
      MkRow("CAMP_SAN_01", "Home", "P03", "Soap", "BOGOF", "Bengaluru",
            0, 3, 0, 0, 3, 1)>>

RollupFrames ==
    {[cols |-> cols,
      rows |-> [i \in 1..Len(picks) |->
                  [idx |-> i - 1, val |-> Restrict(RollupPool[picks[i]], cols)]]] :
        cols \in {AllCols, AllCols \ {"product_code"}},
        picks \in BSeq(1..Len(RollupPool), MaxRollupRows)}

InitRollup ==
    /\ df \in RollupFrames
    /\ state = [k \in FilterKeys |-> {}]
    /\ result = EmptyFrame
    /\ result_is_df = FALSE
    /\ fpc = "args"
    /\ header = <<>>
    /\ columns = <<>>
    /\ disk = [f \in Filenames |-> Absent]
    /\ LoadIdle
    /\ clean_all = EmptyFrame
    /\ session_state \in {[Defaults EXCEPT !["kpi_focus"] = f] :
                             f \in {"Revenue", "Units"}}
    /\ current_page = ""
    /\ filtered_clean_all = EmptyFrame
    /\ kpi = NotRendered
    /\ sankey = SankeyNotRendered
    /\ facet = FacetNotRendered
    /\ sunburst = SunburstNotRendered

\* lines 329-384 with the number input set to top_n
Rollup(top_n) ==
    /\ fpc = "args"
    /\ sunburst' = sunburst_section(df, session_state, top_n)
    /\ fpc' = "rolled"
    /\ UNCHANGED <<df, state, result, result_is_df, header, columns, lvars,
                   clean_all, session_state, current_page, filtered_clean_all,
                   kpi, sankey, facet>>

NextRollup == \E top_n \in 0..MaxTopN : Rollup(top_n)

SpecRollup == InitRollup /\ [][NextRollup]_vars

----------------------------------------------------------------------------
(* The Sankey construction as a function: any scoped table, metric, threshold *)

SankeyRow(camp, promo, cat, ra, tq) ==
    MkRow(camp, cat, "P01", "Atta", promo, "Mysuru", 0, ra, 0, 0, tq, 0)

\* rows with repeated pairs at both hops, a weight of a slider step, and the
\* value "Festive" both as a promo type and as a category
SankeyPool ==
    <<SankeyRow("CAMP_DIW_01", "BOGOF", "Grocery", 5, 1),
      SankeyRow("CAMP_DIW_01", "BOGOF", "Home", 7, 2),
      SankeyRow("CAMP_SAN_01", "BOGOF", "Grocery", SliderStep, 1),
      SankeyRow("CAMP_SAN_01", "Festive", "Home", 2, 3),
      SankeyRow("CAMP_DIW_01", "BOGOF", "Festive", 1, 1)>>

SankeyFrames ==
    {[cols |-> cols,
      rows |-> [i \in 1..Len(picks) |->
                  [idx |-> i - 1, val |-> Restrict(SankeyPool[picks[i]], cols)]]] :
        cols \in {AllCols, AllCols \ {"promo_type"}},
        picks \in BSeq(1..Len(SankeyPool), MaxSankeyRows)}

InitSankey ==
    /\ df \in SankeyFrames
    /\ state = [k \in FilterKeys |-> {}]
    /\ result = EmptyFrame
    /\ result_is_df = FALSE
    /\ fpc = "args"
    /\ header = <<>>
    /\ columns = <<>>
    /\ disk = [f \in Filenames |-> Absent]
    /\ LoadIdle
    /\ DashIdle

\* lines 176-253 with the radio set to metric and the slider to min_value
BuildSankey(metric, min_value) ==
    /\ fpc = "args"
    /\ min_value \in slider_values(df, metric)
    /\ sankey' = sankey_section(df, metric, min_value)
    /\ fpc' = "built"
    /\ UNCHANGED <<df, state, result, result_is_df, header, columns, lvars,
                   clean_all, session_state, current_page, filtered_clean_all,
                   kpi, facet, sunburst>>

NextSankey ==
    \E metric \in {"Revenue", "Units"}, min_value \in {0, SliderStep} :
        BuildSankey(metric, min_value)

SpecSankey == InitSankey /\ [][NextSankey]_vars

----------------------------------------------------------------------------
(* The city focus as a function: any dataframe, any value of the focus *)

\* st.session_state before the script runs: a fresh session, or one that
\* holds the defaults with some value of the focus
FocusStates ==
    {[k \in {} |-> {}]} \cup
    {[Defaults EXCEPT !["selected_city"] = v] :
        v \in {None, "All"} \cup DimValues("city")}

InitFocus ==
    /\ df \in Frames
    /\ state = [k \in FilterKeys |-> {}]
    /\ result = EmptyFrame
    /\ result_is_df = FALSE
    /\ fpc = "args"
    /\ header = <<>>
    /\ columns = <<>>
    /\ disk = [f \in Filenames |-> Absent]
    /\ LoadIdle
    /\ clean_all = EmptyFrame
    /\ session_state \in FocusStates
    /\ current_page = ""
    /\ filtered_clean_all = EmptyFrame
    /\ kpi = NotRendered
    /\ sankey = SankeyNotRendered
    /\ facet = FacetNotRendered
    /\ sunburst = SunburstNotRendered

\* dashboard.py: init_session_state() on line 23, the scoping on lines 167-169
KpiFocusScope ==
    /\ fpc = "args"
    /\ session_state' = init_session_state(session_state)
    /\ result' = city_scope(df, session_state')
    /\ fpc' = "kpi"
    /\ UNCHANGED <<df, state, result_is_df, header, columns, lvars, clean_all, current_page,
                   filtered_clean_all, kpi, sankey, facet, sunburst>>

\* 1_Advanced_Analytics.py: no init_session_state(), the scoping on lines 350-352
SunburstFocusScope ==
    /\ fpc = "args"
    /\ result' = sunburst_city_scope(df, session_state)
    /\ fpc' = "sunburst"
    /\ UNCHANGED <<df, state, result_is_df, header, columns, lvars, dvars>>

NextFocus == KpiFocusScope \/ SunburstFocusScope

SpecFocus == InitFocus /\ [][NextFocus]_vars

----------------------------------------------------------------------------
(* Properties of the KPI summary, the Sankey and the facet sections *)

\* the rows of filtered_clean_all in the KPI scope, by what the selections
\* mean: the focus city unless it is unset or "All", and the categories
ScopeRows ==
    {i \in 1..Len(filtered_clean_all.rows) :
        LET r == filtered_clean_all.rows[i].val
            focus == ss_get(session_state, "selected_city", None)
            cats == ss_get(session_state, "categories", {})
        IN /\ (focus \notin {None, "All"} /\ "city" \in filtered_clean_all.cols)
                  => r["city"] = focus
           /\ cats # {} => r["category"] \in cats}

RECURSIVE SumOver(_, _)
SumOver(I, col) ==
    IF I = {} THEN 0
    ELSE LET i == CHOOSE x \in I : TRUE
         IN filtered_clean_all.rows[i].val[col] + SumOver(I \ {i}, col)

FocusFamily == family_columns[ss_get(session_state, "kpi_focus", "Revenue")]
KpiColumns == {"revenue_before_promo", "revenue_after_promo",
               "quantity_sold (before_promo)", "quantity_sold (after_promo)"}
CategoryAvailable ==
    ss_get(session_state, "categories", {}) # {}
        => "category" \in filtered_clean_all.cols

\* C1 (specified; the code violates it): when the summed before column of a scoped table with rows
\* is zero, the incremental percent on the KPI card and the one plotted in the
\* before/after chart are both 0, and the pass does not fail.
C1_ZeroBeforeGivesZero ==
    (/\ current_page = "dashboard"
     /\ KpiColumns \subseteq filtered_clean_all.cols
     /\ ScopeRows # {}
     /\ SumOver(ScopeRows, FocusFamily[1]) = 0)
    => /\ kpi.exc = <<>>
       /\ kpi.cards # NoCards
       /\ kpi.cards[3] = Zero
       /\ kpi.chart.drawn
       /\ kpi.chart.ir_value = Zero

\* C2: with a non-zero before sum, the KPI of the focused family shows the
\* sum of its before column, the sum of its after column and exactly
\* (after - before) / before * 100, on the cards and (when drawn) in the chart.
C2_KpiValues ==
    (/\ current_page = "dashboard"
     /\ {FocusFamily[1], FocusFamily[2]} \subseteq filtered_clean_all.cols
     /\ CategoryAvailable
     /\ SumOver(ScopeRows, FocusFamily[1]) # 0)
    => LET before == SumOver(ScopeRows, FocusFamily[1])
           after == SumOver(ScopeRows, FocusFamily[2])
       IN /\ Len(kpi.cards) = 3
          /\ kpi.cards[1] = before
          /\ kpi.cards[2] = after
          /\ kpi.cards[3].kind = "num"
          /\ kpi.cards[3].n * before = (after - before) * 100 * kpi.cards[3].d
          /\ kpi.chart.drawn =>
                /\ kpi.chart.y_values = <<before, after>>
                /\ kpi.chart.ir_value = kpi.cards[3]

C2_Witness ==
    /\ current_page = "dashboard"
    /\ session_state["kpi_focus"] = "Units"
    /\ Len(filtered_clean_all.rows) = 2
    /\ kpi.cards = <<3, 4, Frac(100, 3)>>
    /\ kpi.chart.drawn
    /\ kpi.chart.ir_value = Frac(100, 3)

\* C3: when a column the requested KPI needs is absent, the request ends in a
\* missing-column outcome naming an absent column and produces no KPI number:
\* on the dashboard a KeyError carrying the column, no card and no chart; in
\* the facet section the "Missing columns" warning listing the absent columns
\* and no bars.
C3_MissingColumn ==
    /\ (current_page = "dashboard" /\ ~CategoryAvailable)
          => kpi = KeyError(NoCards, "category")
    /\ (/\ current_page = "dashboard"
        /\ CategoryAvailable
        /\ ~({FocusFamily[1], FocusFamily[2]} \subseteq filtered_clean_all.cols))
          => /\ Len(kpi.exc) = 2
             /\ kpi.exc[1] = "KeyError"
             /\ kpi.exc[2] \in {FocusFamily[1], FocusFamily[2]} \ filtered_clean_all.cols
             /\ kpi.cards = NoCards
             /\ ~kpi.chart.drawn
    /\ (current_page = "analytics" /\ facet.kpi_option # "")
          => LET required ==
                    {"campaign_id", "product_code",
                     family_columns[facet.kpi_option][1],
                     family_columns[facet.kpi_option][2]}
             IN required \ filtered_clean_all.cols # {}
                   => /\ facet.warning = required \ filtered_clean_all.cols
                      /\ facet.bars = <<>>
                      /\ ~facet.drawn

C3_Witness ==
    /\ current_page = "dashboard"
    /\ Len(filtered_clean_all.rows) > 0
    /\ "revenue_before_promo" \in filtered_clean_all.cols
    /\ kpi = KeyError(NoCards, "revenue_after_promo")

\* C4 (specified; the code violates it): when load returned an empty dataframe or the filter left
\* no row, the filter and the KPI summary complete without raising.
C4_EmptyInputNoError ==
    (/\ current_page = "dashboard"
     /\ \/ clean_all = EmptyFrame
        \/ /\ Len(filtered_clean_all.rows) = 0
           /\ KpiColumns \cup {"category"} \subseteq filtered_clean_all.cols)
    => kpi.exc = <<>>

\* C5 (specified; the code violates it): a scoped table with every required column and no row
\* gives an empty flow graph, no node and no edge, and no failure.
C5_EmptyFlowGraph ==
    (/\ current_page = "analytics"
     /\ sankey_required \subseteq filtered_clean_all.cols
     /\ Len(filtered_clean_all.rows) = 0)
    => /\ sankey.exc = <<>>
       /\ sankey.labels = <<>>
       /\ sankey.edges = <<>>

----------------------------------------------------------------------------
(* Properties of the filter *)

\* the values a dimension accepts: an empty or missing selection accepts all
Accepted(st, col) ==
    IF state_get(st, filter_map[col]) = {} THEN DimValues(col)
    ELSE state_get(st, filter_map[col])

\* the states at least as restrictive as st on every dimension
Narrowings(st) ==
    [campaigns : IF state_get(st, "campaigns") = {}
                 THEN SUBSET DimValues("campaign_id")
                 ELSE (SUBSET st["campaigns"]) \ {{}},
     categories : IF state_get(st, "categories") = {}
                  THEN SUBSET DimValues("category")
                  ELSE (SUBSET st["categories"]) \ {{}},
     products : IF state_get(st, "products") = {}
                THEN SUBSET DimValues("product_code")
                ELSE (SUBSET st["products"]) \ {{}},
     promo_types : IF state_get(st, "promo_types") = {}
                   THEN SUBSET DimValues("promo_type")
                   ELSE (SUBSET st["promo_types"]) \ {{}},
     cities : IF state_get(st, "cities") = {}
              THEN SUBSET DimValues("city")
              ELSE (SUBSET st["cities"]) \ {{}}]

\* C6: for every alias of the registry load never raises; an absent file
\* gives an empty dataframe with a warning, an unparsable file an empty
\* dataframe with an error message, and get_all_datasets returns a dict that
\* holds every registered alias.
C6_LoadNeverRaises ==
    /\ \A s \in Sessions :
          /\ sess[s].pc # "crashed"
          /\ sess[s].pc = "loaded" =>
                /\ DOMAIN sess[s].datasets = Aliases
                /\ \A a \in Aliases :
                      disk[CSV_ALIASES[a]].status # "ok" =>
                          sess[s].datasets[a] = EmptyFrame
    /\ \A a \in Aliases :
          csv_cache[a].hit =>
              /\ disk[CSV_ALIASES[a]].status = "absent" =>
                    /\ csv_cache[a].value = EmptyFrame
                    /\ csv_cache[a].alerts = {<<"warning", CSV_ALIASES[a]>>}
              /\ disk[CSV_ALIASES[a]].status = "corrupt" =>
                    /\ csv_cache[a].value = EmptyFrame
                    /\ csv_cache[a].alerts = {<<"error", CSV_ALIASES[a]>>}

C6_Witness ==
    \E s \in Sessions :
        /\ sess[s].pc = "loaded"
        /\ sess[s].page = "explorer"
        /\ disk["clean_all.csv"].status = "absent"
        /\ disk["city_sales.csv"].status = "corrupt"
        /\ \A a \in Aliases : csv_cache[a].hit

\* C7: over every interleaving of the pages' loads the file of an alias is
\* read (pd.read_csv) at most once; later and concurrent requests get the
\* cached dataframe.
C7_AtMostOnce == \A f \in Filenames : nreads[f] <= 1

C7_Witness ==
    \E s1, s2 \in Sessions :
        /\ s1 # s2
        /\ sess[s1].pc = "csv_lock"
        /\ sess[s2].pc = "csv_compute"
        /\ sess[s1].i = sess[s2].i
        /\ sess[s1].page # sess[s2].page
        /\ disk[CSV_ALIASES[AliasOrder[1]]].status = "ok"
        /\ nreads[CSV_ALIASES[AliasOrder[1]]] = 1

\* C8: filtering is idempotent: applying the same state to the returned
\* dataframe gives back exactly the returned dataframe.
C8_Idempotent ==
    fpc = "returned" => apply_global_filters(result, state) = result

C8_Witness ==
    /\ fpc = "returned"
    /\ active_filters(df, state) # {}
    /\ Len(result.rows) > 0
    /\ Len(result.rows) < Len(df.rows)

\* C9: filtering is monotone: for every state S2 that is at least as
\* restrictive as S1 on every dimension (an empty or missing selection being
\* the least restrictive), every row of apply(D, S2) is a row of apply(D, S1).
C9_Monotone ==
    fpc = "returned" =>
        \A s2 \in Narrowings(state) :
            RowIds(apply_global_filters(df, s2)) \subseteq RowIds(result)

C9_Witness ==
    /\ fpc = "returned"
    /\ active_filters(df, state) # {}
    /\ \E s2 \in Narrowings(state) :
          /\ Active(s2) # Active(state)
          /\ RowIds(apply_global_filters(df, s2)) # RowIds(result)
          /\ RowIds(apply_global_filters(df, s2)) # {}

\* C10: a state whose every dimension is empty or missing returns the
\* dataframe row for row: same rows, same order, same columns.
C10_EmptySelection ==
    (fpc = "returned" /\ \A k \in FilterKeys : state_get(state, k) = {})
        => result = df

C10_Witness ==
    /\ fpc = "returned"
    /\ \A k \in FilterKeys : state_get(state, k) = {}
    /\ DOMAIN state # FilterKeys
    /\ DOMAIN state # {}
    /\ Len(df.rows) = MaxRows
    /\ result = df

\* the rows the selections of st accept, by what the filter means: a
\* dimension restricts only when its column exists and its set is non-empty
Matches(d, st, r) ==
    \A col \in DOMAIN filter_map :
        (col \in d.cols /\ state_get(st, filter_map[col]) # {})
            => r.val[col] \in state_get(st, filter_map[col])

MatchingRows(d, st) ==
    LET keep(r) == Matches(d, st, r) IN SelectSeq(d.rows, keep)

\* C11: the returned dataframe has the columns of df and exactly the rows of
\* df, in order, whose value is in the selection of every dimension that has
\* its column in df and a non-empty selection; other dimensions remove no row.
C11_ExactRows ==
    fpc = "returned" =>
        /\ result.cols = df.cols
        /\ result.rows = MatchingRows(df, state)

C11_Witness ==
    /\ fpc = "returned"
    /\ Cardinality(active_filters(df, state)) = 2
    /\ \E col \in active_filters(df, state) :
          Cardinality(state_get(state, filter_map[col])) = 2
    /\ Len(df.rows) = 2
    /\ Len(result.rows) = 1

\* C12 (specified; the code violates it): the object apply_global_filters returns is never the
\* dataframe it was given, also for an empty dataframe and when no dimension
\* is active.
C12_FreshResult ==
    fpc = "returned" => ~result_is_df

\* C13: the city focus scopes like the cities filter with a singleton: with a
\* concrete city only the rows of that city remain, and with None, "All" or no
\* key at all every row remains ("All" is not compared with row values).
C13_CityFocus ==
    fpc \in {"kpi", "sunburst"} =>
        LET focus == ss_get(session_state, "selected_city", "All")
        IN IF focus \in {None, "All"}
           THEN result = df
           ELSE result = apply_global_filters(df, [cities |-> {focus}])

C13_Witness ==
    /\ fpc = "sunburst"
    /\ ss_get(session_state, "selected_city", "All") = "Mysuru"
    /\ Len(df.rows) = 2
    /\ Len(result.rows) = 1
    /\ result.rows[1].val["city"] = "Mysuru"

\* C14 (specified; the code violates it): after load no column name has surrounding whitespace, an
\* alternate spelling is kept only where its canonical name is a column too,
\* and no two columns of the returned dataframe have the same name.
C14_NoCollision ==
    fpc = "loaded" =>
        /\ \A i \in 1..Len(columns) : strip(columns[i]) = columns[i]
        /\ \A k \in 1..Len(rename_map) :
              rename_map[k][1] \in Names(columns)
                  => rename_map[k][2] \in Names(columns)
        /\ \A i, j \in 1..Len(columns) : columns[i] = columns[j] => i = j

----------------------------------------------------------------------------
(* Properties of the sunburst's rollup *)

\* the rows of df with no missing path segment, and their paths
CompleteRows ==
    {i \in 1..Len(df.rows) :
        \A c \in {"campaign_id", "promo_type", "category", "product_code"} :
            df.rows[i].val[c] # nan}

PathAt(i) ==
    <<df.rows[i].val["campaign_id"], df.rows[i].val["promo_type"],
      df.rows[i].val["category"], df.rows[i].val["product_code"]>>

PathsPresent == {PathAt(i) : i \in CompleteRows}

RECURSIVE RowSum(_, _)
RowSum(I, col) ==
    IF I = {} THEN 0
    ELSE LET i == CHOOSE x \in I : TRUE
         IN df.rows[i].val[col] + RowSum(I \ {i}, col)

MeasureColumn ==
    IF session_state["kpi_focus"] = "Revenue"
    THEN "revenue_after_promo" ELSE "total_quantity_sold"

NodePaths == {sunburst.nodes[k].path : k \in 1..Len(sunburst.nodes)}

\* C15: without pruning the rollup has exactly one node per distinct full path
\* among the rows with no missing path segment; its value is the sum of the
\* measure column and its colour the mean of incremental_margin% over the
\* rows of that path; rows with a missing segment are in no node.
C15_Rollup ==
    (fpc = "rolled" /\ sunburst.warning = {} /\ sunburst.top_n = 0) =>
        /\ NodePaths = PathsPresent
        /\ Len(sunburst.nodes) = Cardinality(PathsPresent)
        /\ \A k \in 1..Len(sunburst.nodes) :
              LET node == sunburst.nodes[k]
                  members == {i \in CompleteRows : PathAt(i) = node.path}
              IN /\ node.value = RowSum(members, MeasureColumn)
                 /\ node.incremental_margin_pct.kind = "num"
                 /\ node.incremental_margin_pct.n * Cardinality(members)
                       = RowSum(members, "incremental_margin%")
                            * node.incremental_margin_pct.d

C15_Witness ==
    /\ fpc = "rolled"
    /\ sunburst.warning = {}
    /\ sunburst.top_n = 0
    /\ session_state["kpi_focus"] = "Revenue"
    /\ Len(df.rows) = 3
    /\ Cardinality(CompleteRows) = 2
    /\ Len(sunburst.nodes) = 1
    /\ sunburst.nodes[1].value = 3
    /\ sunburst.nodes[1].incremental_margin_pct = Frac(3, 2)

LeavesPresent == {p[4] : p \in PathsPresent}

LeafTotal(l) ==
    RowSum({i \in CompleteRows : df.rows[i].val["product_code"] = l},
           MeasureColumn)

\* C16: with N > 0 the kept groups are exactly those whose leaf is one of N
\* leaves with the largest totals over all their groups (all leaves when
\* there are fewer than N), under every upstream path of a kept leaf; with
\* N = 0 every group is kept.
C16_TopN ==
    (fpc = "rolled" /\ sunburst.warning = {}) =>
        LET kept == {p[4] : p \in NodePaths}
            N == sunburst.top_n
        IN IF N = 0 THEN NodePaths = PathsPresent
           ELSE /\ kept \subseteq LeavesPresent
                /\ Cardinality(kept) =
                      IF Cardinality(LeavesPresent) < N
                      THEN Cardinality(LeavesPresent) ELSE N
                /\ \A l \in kept, m \in LeavesPresent \ kept :
                      LeafTotal(l) >= LeafTotal(m)
                /\ NodePaths = {p \in PathsPresent : p[4] \in kept}

C16_Witness ==
    /\ fpc = "rolled"
    /\ sunburst.warning = {}
    /\ sunburst.top_n = 1
    /\ session_state["kpi_focus"] = "Revenue"
    /\ Cardinality(LeavesPresent) = 2
    /\ Len(sunburst.nodes) = 2
    /\ \A k \in 1..2 : sunburst.nodes[k].path[4] = "P01"
    /\ \E m \in LeavesPresent :
          \A k \in 1..2 : sunburst.nodes[k].value < LeafTotal(m)

----------------------------------------------------------------------------
(* Properties of the Sankey construction *)

\* the rows of df at or above the slider's threshold
AboveThreshold ==
    {i \in 1..Len(df.rows) : df.rows[i].val[sankey.value_col] >= sankey.min_value}

LevelValues(col) == {df.rows[i].val[col] : i \in AboveThreshold}

\* C17 (specified; the code violates it): every label of the levels is in the node list, and the
\* node list holds no label twice, also when a value occurs at two levels.
C17_DistinctNodes ==
    (fpc = "built" /\ sankey.drawn) =>
        /\ {sankey.labels[i] : i \in 1..Len(sankey.labels)}
              = LevelValues("campaign_id") \cup LevelValues("promo_type")
                    \cup LevelValues("category")
        /\ \A i, j \in 1..Len(sankey.labels) :
              sankey.labels[i] = sankey.labels[j] => i = j

HopPairs(c1, c2) ==
    {<<df.rows[i].val[c1], df.rows[i].val[c2]>> : i \in AboveThreshold}

\* the edges at positions lo+1 .. lo+n are one per pair of (c1, c2), each
\* between node positions labelled with the pair's values and weighted by
\* the sum of the weight column over the rows of the pair
HopEdges(lo, c1, c2) ==
    LET pairs == HopPairs(c1, c2)
        at(k) == sankey.edges[lo + k]
    IN /\ \A k \in 1..Cardinality(pairs) :
             /\ at(k).source \in 0..(Len(sankey.labels) - 1)
             /\ at(k).target \in 0..(Len(sankey.labels) - 1)
             /\ <<sankey.labels[at(k).source + 1],
                  sankey.labels[at(k).target + 1]>> \in pairs
             /\ at(k).value =
                   RowSum({i \in AboveThreshold :
                              /\ df.rows[i].val[c1] = sankey.labels[at(k).source + 1]
                              /\ df.rows[i].val[c2] = sankey.labels[at(k).target + 1]},
                          sankey.value_col)
       /\ \A p \in pairs :
             \E k \in 1..Cardinality(pairs) :
                 /\ sankey.labels[at(k).source + 1] = p[1]
                 /\ sankey.labels[at(k).target + 1] = p[2]

\* C18: the edge list is the campaign -> promo type edges followed by the
\* promo type -> category edges, one per distinct pair of the rows at or above
\* the threshold, weighted by the sum of the value column over the pair's
\* rows, and both indices of an edge are positions of the node list that
\* carry the endpoint's value.
C18_Edges ==
    (fpc = "built" /\ sankey.drawn) =>
        LET n1 == Cardinality(HopPairs("campaign_id", "promo_type"))
            n2 == Cardinality(HopPairs("promo_type", "category"))
        IN /\ Len(sankey.edges) = n1 + n2
           /\ HopEdges(0, "campaign_id", "promo_type")
           /\ HopEdges(n1, "promo_type", "category")

C18_Witness ==
    /\ fpc = "built"
    /\ sankey.drawn
    /\ sankey.value_col = "revenue_after_promo"
    /\ sankey.min_value = 0
    /\ Len(df.rows) = 3
    /\ Len(sankey.edges) = 4
    /\ sankey.edges[1].value = 12
    /\ sankey.edges[3].value = SliderStep + 5

----------------------------------------------------------------------------
(* Properties of the dashboard's filter widgets *)

\* C19 (specified; the code violates it): when exactly one multiselect holds exactly one of the
\* values it offers, the scoped table holds every clean_all row that carries
\* that value in the column the value was offered from, hence at least one.
C19_OfferedValueSelects ==
    current_page = "dashboard" =>
        \A key \in FilterKeys :
            \A v \in safe_unique(clean_all, options_column[key]) :
                (/\ session_state[key] = {v}
                 /\ \A other \in FilterKeys \ {key} : session_state[other] = {})
                => /\ Len(filtered_clean_all.rows) > 0
                   /\ \A i \in 1..Len(clean_all.rows) :
                         clean_all.rows[i].val[options_column[key]] = v
                             => \E j \in 1..Len(filtered_clean_all.rows) :
                                    filtered_clean_all.rows[j] = clean_all.rows[i]

====
